---- MODULE Spec2Model ----
(***************************************************************************)
(* Model of lit-parrot/chat.py: the generator `generate` (lines 17-95),    *)
(* which samples tokens one Model call at a time and streams them through  *)
(* a stop-sequence buffer, and the REPL `main` (lines 137-167) driving it. *)
(*                                                                         *)
(* Spec     : one generate call with arbitrary arguments, pulled to        *)
(*            exhaustion by its caller.                                    *)
(* SpecMain : the REPL of main, which creates one generate call per        *)
(*            prompt line and may be interrupted from the keyboard.        *)
(***************************************************************************)
EXTENDS Integers, Sequences, FiniteSets, TLC

\* ------------------------------------------------------------------ bounds
VocabSize == 3
MaxNew == 4
MaxPrompt == 2
MaxTurns == 2

\* model.config.block_size of the loaded checkpoint
BlockSize == 3

\* largest absolute value of a logit the Model returns
MaxLogit == 2

\* the "non-existing token" the buffer is filled with (line 51)
Filler == -999

\* -float("Inf") of line 67, below every logit
NegInf == -1000

\* top_k of main (line 100)
DefaultTopK == 200

Vocab == 1..VocabSize

\* Optional[int]: None is the empty set, a given value n is {n}
None == {}
Some(n) == {n}
TheValue(o) == CHOOSE n \in o : TRUE

Min(a, b) == IF a <= b THEN a ELSE b
Max(a, b) == IF a >= b THEN a ELSE b

\* ------------------------------------------------------- inputs of a call
\* stop_tokens tuples, in configuration order.  Token 1 plays eos_id.
StopConfigs ==
    { << >>,
      << <<3>> >>,
      << <<2, 3>> >>,
      << <<3>>, <<2, 3>> >>,
      << <<2, 3>>, <<3>> >>,
      << <<1>>, <<3, 2, 3>> >>,
      << <<1, 2, 3>>, <<2, 3>> >> }

\* temperature by sign: a positive temperature keeps the order of the
\* logits, a negative one reverses it, 0 divides by zero
Temperatures == {-1, 0, 1}

\* the encoded prompt: T tokens of the vocabulary
Prompt(n) == [i \in 1..n |-> ((i - 1) % VocabSize) + 1]

\* max_seq_length argument: None or an explicit window
Windows == {None} \cup { Some(w) : w \in 1..(MaxPrompt + 1) }

\* --------------------------------------------------------------- state
VARIABLES
    pc,              \* position of main: "input", "reset", "reply", "exit", "crash"
    gpc,             \* state of the generator object y
    args,            \* arguments of the generate call
    max_seq_length,  \* local of generate (lines 40-41)
    idx,             \* local of generate: the tokens handed to the next Model call
    input_pos,       \* local of generate: the positions handed to the next Model call
    buffer,          \* local of generate (line 51)
    yield_i,         \* local of generate (line 58)
    t,               \* loop variable of generate (line 59)
    sampled,         \* history: tokens drawn by torch.multinomial in this call
    yielded,         \* history: items yielded by this call (each a token sequence)
    forwards,        \* history: the Model calls of this call, oldest first
    cacheFresh,      \* TRUE from model.reset_cache() until the next Model call
    resets,          \* number of model.reset_cache() calls made by main
    prev,            \* history: how the generator of the previous prompt ended
    turns,           \* number of non-empty prompts read by main
    prompt,          \* the line input() returned last: "none", "" or "text"
    spc,             \* position inside the sampling lines 61-70 (SpecSample)
    logits,          \* local of generate: the logits of the last position
    unmasked,        \* history: logits as they were before line 67
    drawn            \* the token torch.multinomial returned, 0 before it did

vars == << pc, gpc, args, max_seq_length, idx, input_pos, buffer, yield_i, t,
           sampled, yielded, forwards, cacheFresh, resets, prev, turns,
           prompt, spc, logits, unmasked, drawn >>

sampling == << spc, logits, unmasked, drawn >>

locals == << max_seq_length, idx, input_pos, buffer, yield_i, t >>
history == << sampled, yielded, forwards >>

\* ------------------------------------------------------ pure helpers
RECURSIVE Flatten(_)
Flatten(ss) == IF ss = << >> THEN << >> ELSE Head(ss) \o Flatten(Tail(ss))

\* all tokens yielded so far, in the order the caller receives them
Stream == Flatten(yielded)

Last(s) == s[Len(s)]

\* line 50: max((len(tokens) for tokens in stop_tokens), default=1)
RECURSIVE MaxLen(_)
MaxLen(stops) ==
    IF stops = << >> THEN 0 ELSE Max(Len(Head(stops)), MaxLen(Tail(stops)))

buffer_length(stops) == IF stops = << >> THEN 1 ELSE MaxLen(stops)

\* buffer[-l:]
Tail_l(buf, l) == SubSeq(buf, Len(buf) - l + 1, Len(buf))

\* buffer[:-l] mistaken for the whole buffer
WholeBuffer(buf, l) == buf

\* buffer[:-l]
Front_l(buf, l) == SubSeq(buf, 1, Len(buf) - l)

\* line 94 without the roll
NoRoll(buf) == buf

\* torch.roll(buffer, -1, 0)
Roll(buf) == IF Len(buf) = 0 THEN buf ELSE Tail(buf) \o << Head(buf) >>

\* lines 82-84 with the longest matching pattern preferred to the first one
RECURSIVE LongestMatch(_, _)
LongestMatch(buf, stops) ==
    IF stops = << >> THEN 0
    ELSE LET l == Len(Head(stops))
             rest == LongestMatch(buf, Tail(stops))
         IN IF Tail_l(buf, l) = Head(stops) THEN Max(l, rest) ELSE rest

\* lines 82-84: length of the first pattern, in configuration order, that
\* equals the last len(pattern) slots of the buffer; 0 when none does
RECURSIVE MatchLen(_, _)
MatchLen(buf, stops) ==
    IF stops = << >> THEN 0
    ELSE LET l == Len(Head(stops))
         IN IF Tail_l(buf, l) = Head(stops) THEN l ELSE MatchLen(buf, Tail(stops))

\* line 79 storing every token in the last slot: buffer[-1] = idx
StoreLast(buf, step, tok) == [buf EXCEPT ![Len(buf)] = tok]

\* line 79: buffer[min(t, buffer_length - 1)] = idx   (slots counted from 1)
Store(buf, step, tok) == [buf EXCEPT ![Min(step, Len(buf) - 1) + 1] = tok]

\* line 59 with one iteration too many: range(max_new_tokens + 1)
InRangePlusOne(step, n) == step <= n

\* line 59: for t in range(max_new_tokens)
InRange(step, n) == step < n

\* line 90 with > for >=: the first yield comes one step late
BufferFullLate(step, yi, len) == step - yi > len

\* line 90: if t - yield_i >= buffer_length
BufferFull(step, yi, len) == step - yi >= len

\* line 73 without the slice: every position is advanced
AdvanceAll(pos) == [i \in DOMAIN pos |-> pos[i] + 1]

\* line 73: input_pos = input_pos[-1:] + 1
Advance(pos) == << Last(pos) + 1 >>

\* line 43 without the assertion
WindowUnchecked(msl, T_new) == TRUE

\* line 43: assert max_seq_length <= T_new
WindowOk(msl, T_new) == msl <= T_new

\* ------------------------------------------------------ the generator
L == buffer_length(args.stop_tokens)

\* the sampling lines are not being stepped through
NoSample ==
    /\ spc = "none"
    /\ logits = << >>
    /\ unmasked = << >>
    /\ drawn = 0

NoCall ==
    /\ max_seq_length = 0
    /\ idx = << >>
    /\ input_pos = << >>
    /\ buffer = << >>
    /\ yield_i = -1
    /\ t = 0
    /\ sampled = << >>
    /\ yielded = << >>
    /\ forwards = << >>

\* lines 38-58, run by the first next() on the generator
Start ==
    /\ pc = "reply"
    /\ gpc = "created"
    /\ LET T_new == args.T + args.max_new_tokens
           msl == IF args.max_seq_length = None
                  THEN Min(T_new, BlockSize)
                  ELSE TheValue(args.max_seq_length)
       IN /\ max_seq_length' = msl
          /\ IF WindowOk(msl, T_new)
             THEN /\ idx' = Prompt(args.T)
                  /\ input_pos' = [i \in 1..args.T |-> i - 1]
                  /\ buffer' = [i \in 1..L |-> Filler]
                  /\ gpc' = IF InRange(0, args.max_new_tokens) THEN "running" ELSE "budget"
             ELSE /\ gpc' = "rejected"
                  /\ UNCHANGED << idx, input_pos, buffer >>
    /\ UNCHANGED << pc, args, yield_i, t, history, cacheFresh, resets, prev, turns, prompt, sampling >>

\* the record of one Model call (line 61)
Forward == [idx |-> idx, max_seq_length |-> max_seq_length, input_pos |-> input_pos]

\* lines 59-95: one iteration of the loop in which the Model answers and
\* torch.multinomial draws tok.  The Model is a black box: whatever
\* temperature # 0 and top_k are, some logits make any token the one drawn
\* (SpecSample steps through lines 61-70 themselves).
Step ==
    /\ pc = "reply"
    /\ gpc = "running"
    /\ InRange(t, args.max_new_tokens)
    /\ args.temperature # 0
    /\ \E tok \in Vocab :
         LET buf == Store(buffer, t, tok)
             l == MatchLen(buf, args.stop_tokens)
         IN /\ forwards' = Append(forwards, Forward)
            /\ cacheFresh' = FALSE
            /\ sampled' = Append(sampled, tok)
            /\ idx' = << tok >>
            /\ input_pos' = Advance(input_pos)
            /\ IF l > 0
               THEN /\ yielded' = IF L > l THEN Append(yielded, Front_l(buf, l))
                                  ELSE yielded
                    /\ buffer' = buf
                    /\ gpc' = "match"
                    /\ UNCHANGED << yield_i, t >>
               ELSE /\ IF BufferFull(t, yield_i, L)
                       THEN /\ yielded' = Append(yielded, << buf[1] >>)
                            /\ buffer' = Roll(buf)
                            /\ yield_i' = yield_i + 1
                       ELSE /\ buffer' = buf
                            /\ UNCHANGED << yielded, yield_i >>
                    /\ t' = t + 1
                    /\ gpc' = IF InRange(t + 1, args.max_new_tokens) THEN "running" ELSE "budget"
    /\ UNCHANGED << pc, args, max_seq_length, resets, prev, turns, prompt, sampling >>

\* line 61 raises: the Model call fails and the exception leaves generate
ModelFail ==
    /\ pc = "reply"
    /\ gpc = "running"
    /\ InRange(t, args.max_new_tokens)
    /\ forwards' = Append(forwards, Forward)
    /\ cacheFresh' = FALSE
    /\ gpc' = "failed"
    /\ UNCHANGED << pc, args, locals, sampled, yielded, resets, prev, turns, prompt, sampling >>

\* lines 62-70 with temperature = 0: the logits are divided by zero and
\* torch.multinomial rejects the resulting probabilities
SampleFail ==
    /\ pc = "reply"
    /\ gpc = "running"
    /\ InRange(t, args.max_new_tokens)
    /\ args.temperature = 0
    /\ forwards' = Append(forwards, Forward)
    /\ cacheFresh' = FALSE
    /\ gpc' = "sample_failed"
    /\ UNCHANGED << pc, args, locals, sampled, yielded, resets, prev, turns, prompt, sampling >>

\* ------------------------------------------- Spec: one call of generate
Calls ==
    [ T : 1..MaxPrompt,
      max_new_tokens : 0..MaxNew,
      max_seq_length : Windows,
      temperature : Temperatures,
      top_k : {None},
      stop_tokens : StopConfigs ]

Init ==
    /\ pc = "reply"
    /\ gpc = "created"
    /\ args \in Calls
    /\ NoCall
    /\ cacheFresh = TRUE
    /\ resets = 0
    /\ prev = "none"
    /\ turns = 0
    /\ prompt = "none"
    /\ NoSample

Next == Start \/ Step \/ ModelFail \/ SampleFail

Spec == Init /\ [][Next]_vars

\* the caller keeps pulling: the for loop over the generator does not stop
\* by itself while the generator can still run
SpecFair == Spec /\ WF_vars(Next)

\* ------------------------------------------------- SpecMain: the REPL
\* prompt_config (lines 170-214): the stop_tokens of the four checkpoint
\* families, every one led by [eos_id], over the small vocabulary
PromptConfigs ==
    { << <<1>> >>,
      << <<1>>, <<3>> >>,
      << <<1>>, <<2, 2, 3>>, <<2, 3, 3>> >>,
      << <<1>>, <<2, 3>>, <<3, 3>>, <<2>> >> }

\* lines 139, 144-153: a non-empty prompt is read and encoded and the
\* generator object is created; none of the body of generate runs yet
ReadPrompt ==
    /\ pc = "input"
    /\ turns < MaxTurns
    /\ \E n \in 1..MaxPrompt : args' = [args EXCEPT !.T = n]
    /\ gpc' = "created"
    /\ max_seq_length' = 0
    /\ idx' = << >>
    /\ input_pos' = << >>
    /\ buffer' = << >>
    /\ yield_i' = -1
    /\ t' = 0
    /\ sampled' = << >>
    /\ yielded' = << >>
    /\ forwards' = << >>
    /\ turns' = turns + 1
    /\ prompt' = "text"
    /\ prev' = gpc
    /\ pc' = "reset"
    /\ UNCHANGED << cacheFresh, resets, sampling >>

\* lines 139-153 without the test of lines 142-143: the empty line is put
\* in the template like any other and a generator is created for it
ReadEmptyNoBreak ==
    /\ pc = "input"
    /\ turns < MaxTurns
    /\ prompt' = ""
    /\ \E n \in 1..MaxPrompt : args' = [args EXCEPT !.T = n]
    /\ gpc' = "created"
    /\ max_seq_length' = 0
    /\ idx' = << >>
    /\ input_pos' = << >>
    /\ buffer' = << >>
    /\ yield_i' = -1
    /\ t' = 0
    /\ sampled' = << >>
    /\ yielded' = << >>
    /\ forwards' = << >>
    /\ turns' = turns + 1
    /\ prev' = gpc
    /\ pc' = "reset"
    /\ UNCHANGED << cacheFresh, resets, sampling >>

\* lines 139, 142-143: an empty prompt line ends the loop
ReadEmpty ==
    /\ pc = "input"
    /\ prompt' = ""
    /\ pc' = "exit"
    /\ UNCHANGED << gpc, args, locals, history, cacheFresh, resets, prev, turns, sampling >>

\* lines 140-141: a keyboard interrupt while waiting for the prompt
InterruptInput ==
    /\ pc = "input"
    /\ pc' = "exit"
    /\ UNCHANGED << gpc, args, locals, history, cacheFresh, resets, prev, turns, prompt, sampling >>

\* lines 154-155 without the call of model.reset_cache()
ResetSkipped ==
    /\ pc = "reset"
    /\ pc' = "reply"
    /\ UNCHANGED << gpc, args, locals, history, cacheFresh, resets, prev, turns, prompt, sampling >>

\* lines 154-155
ResetCache ==
    /\ pc = "reset"
    /\ cacheFresh' = TRUE
    /\ resets' = resets + 1
    /\ pc' = "reply"
    /\ UNCHANGED << gpc, args, locals, history, prev, turns, prompt, sampling >>

\* a keyboard interrupt in lines 144-155, outside the try block
InterruptSetup ==
    /\ pc = "reset"
    /\ pc' = "crash"
    /\ UNCHANGED << gpc, args, locals, history, cacheFresh, resets, prev, turns, prompt, sampling >>

\* lines 159-163, 167: the generator is exhausted, the timing is printed
ReplyDone ==
    /\ pc = "reply"
    /\ gpc \in {"match", "budget"}
    /\ pc' = "input"
    /\ UNCHANGED << gpc, args, locals, history, cacheFresh, resets, prev, turns, prompt, sampling >>

\* a keyboard interrupt in the try block whose except clause is missing
InterruptUncaught ==
    /\ pc = "reply"
    /\ gpc \in {"created", "running", "match", "budget"}
    /\ gpc' = IF gpc \in {"created", "running"} THEN "cancelled" ELSE gpc
    /\ pc' = "crash"
    /\ UNCHANGED << args, locals, history, cacheFresh, resets, prev, turns, prompt, sampling >>

\* lines 156-167: a keyboard interrupt inside the try block is absorbed;
\* the generator is abandoned where it stands
Interrupt ==
    /\ pc = "reply"
    /\ gpc \in {"created", "running", "match", "budget"}
    /\ gpc' = IF gpc \in {"created", "running"} THEN "cancelled" ELSE gpc
    /\ pc' = "input"
    /\ UNCHANGED << args, locals, history, cacheFresh, resets, prev, turns, prompt, sampling >>

\* lines 164-166 with a bare except: every exception is absorbed
CrashAbsorbed ==
    /\ pc = "reply"
    /\ gpc \in {"failed", "sample_failed", "rejected"}
    /\ pc' = "input"
    /\ UNCHANGED << gpc, args, locals, history, cacheFresh, resets, prev, turns, prompt, sampling >>

\* lines 159-166: any other exception raised by the generator leaves main
Crash ==
    /\ pc = "reply"
    /\ gpc \in {"failed", "sample_failed", "rejected"}
    /\ pc' = "crash"
    /\ UNCHANGED << gpc, args, locals, history, cacheFresh, resets, prev, turns, prompt, sampling >>

\* lines 98-135, 146-153: temperature and stop_tokens are fixed for the
\* process, max_new_tokens is block_size and max_seq_length is left out
MainCalls ==
    [ T : {0},
      max_new_tokens : {BlockSize},
      max_seq_length : {None},
      temperature : Temperatures,
      top_k : {Some(DefaultTopK)},
      stop_tokens : PromptConfigs ]

InitMain ==
    /\ pc = "input"
    /\ gpc = "none"
    /\ args \in MainCalls
    /\ NoCall
    /\ cacheFresh = TRUE
    /\ resets = 0
    /\ prev = "none"
    /\ turns = 0
    /\ prompt = "none"
    /\ NoSample

NextMain ==
    \/ ReadPrompt \/ ReadEmpty \/ InterruptInput \/ ResetCache \/ InterruptSetup
    \/ Start \/ Step \/ ModelFail \/ SampleFail
    \/ ReplyDone \/ Interrupt \/ Crash

SpecMain == InitMain /\ [][NextMain]_vars

\* ------------------------------------- SpecSample: lines 61-70 on their own
\* the logits of the last position, one per token of the vocabulary
LogitVectors == [Vocab -> 0..MaxLogit]

\* top_k argument: None, or k, also one larger than the vocabulary
TopKs == {None} \cup { Some(k) : k \in 1..(VocabSize + 1) }

\* line 62: logits / temperature, temperature being 1 or -1
Divide(lg, temp) == [v \in DOMAIN lg |-> lg[v] * temp]

\* torch.topk(logits, k): the k largest values, largest first
RECURSIVE topk(_, _, _)
topk(lg, S, k) ==
    IF k = 0 \/ S = {} THEN << >>
    ELSE LET m == CHOOSE v \in S : \A w \in S : lg[v] >= lg[w]
         IN << lg[m] >> \o topk(lg, S \ {m}, k - 1)

\* line 67 with <= for <: the k-th largest value is masked too
MaskUpTo(lg, v) == [i \in DOMAIN lg |-> IF lg[i] <= Last(v) THEN NegInf ELSE lg[i]]

\* line 67: torch.where(logits < v[[-1]], -float("Inf"), logits)
MaskBelow(lg, v) == [i \in DOMAIN lg |-> IF lg[i] < Last(v) THEN NegInf ELSE lg[i]]

\* lines 65-67
TopKFilter(lg, top_k) ==
    IF top_k = None THEN lg
    ELSE MaskBelow(lg, topk(lg, DOMAIN lg, Min(TheValue(top_k), Cardinality(DOMAIN lg))))

\* line 69: the tokens softmax gives a probability above 0
Support(lg) == { v \in DOMAIN lg : lg[v] # NegInf }

\* line 62 with temperature # 0
Scale ==
    /\ spc = "forward"
    /\ args.temperature # 0
    /\ logits' = Divide(logits, args.temperature)
    /\ spc' = "scaled"
    /\ UNCHANGED << pc, gpc, args, locals, history, cacheFresh, resets, prev, turns, prompt,
                    unmasked, drawn >>

\* lines 62-70 with temperature = 0: torch.multinomial raises
ScaleByZero ==
    /\ spc = "forward"
    /\ args.temperature = 0
    /\ spc' = "sample_failed"
    /\ gpc' = "sample_failed"
    /\ UNCHANGED << pc, args, locals, history, cacheFresh, resets, prev, turns, prompt,
                    logits, unmasked, drawn >>

\* lines 65-67
Mask ==
    /\ spc = "scaled"
    /\ unmasked' = logits
    /\ logits' = TopKFilter(logits, args.top_k)
    /\ spc' = "masked"
    /\ UNCHANGED << pc, gpc, args, locals, history, cacheFresh, resets, prev, turns, prompt,
                    drawn >>

\* lines 69-70: softmax and one draw from it
Draw ==
    /\ spc = "masked"
    /\ \E tok \in Support(logits) : drawn' = tok
    /\ spc' = "drawn"
    /\ UNCHANGED << pc, gpc, args, locals, history, cacheFresh, resets, prev, turns, prompt,
                    logits, unmasked >>

SampleCalls ==
    [ T : {1},
      max_new_tokens : {1},
      max_seq_length : {None},
      temperature : Temperatures,
      top_k : TopKs,
      stop_tokens : { << >> } ]

\* the state after line 61 of the first iteration
InitSample ==
    /\ pc = "reply"
    /\ gpc = "running"
    /\ args \in SampleCalls
    /\ NoCall
    /\ cacheFresh = FALSE
    /\ resets = 0
    /\ prev = "none"
    /\ turns = 0
    /\ prompt = "none"
    /\ spc = "forward"
    /\ logits \in LogitVectors
    /\ unmasked = << >>
    /\ drawn = 0

NextSample == Scale \/ ScaleByZero \/ Mask \/ Draw

SpecSample == InitSample /\ [][NextSample]_vars

\* ============================================================ properties
stops == args.stop_tokens

\* seq ends with the pattern p, compared over exactly Len(p) tokens
EndsWith(seq, p) ==
    /\ Len(seq) >= Len(p)
    /\ SubSeq(seq, Len(seq) - Len(p) + 1, Len(seq)) = p

EndsWithStop(seq) == \E i \in DOMAIN stops : EndsWith(seq, stops[i])

\* no prefix of seq ends with a stop pattern
NeverMatches(seq) ==
    \A k \in 1..Len(seq) : ~ EndsWithStop(SubSeq(seq, 1, k))

\* p occurs in seq as a contiguous subsequence
Contains(seq, p) ==
    \E k \in 1..Len(seq) : EndsWith(SubSeq(seq, 1, k), p)

IsPrefix(a, b) == Len(a) <= Len(b) /\ SubSeq(b, 1, Len(a)) = a

DropLast(seq, n) == SubSeq(seq, 1, Len(seq) - n)

\* index of the first pattern, in configuration order, that seq ends with
FirstEnding(seq) ==
    CHOOSE i \in DOMAIN stops :
        /\ EndsWith(seq, stops[i])
        /\ \A j \in 1..(i - 1) : ~ EndsWith(seq, stops[j])

\* the arguments are ones the documentation of generate allows: a positive
\* temperature and a window that holds the prompt and passes line 43
ValidCall ==
    /\ args.temperature > 0
    /\ \/ args.max_seq_length = None
       \/ /\ TheValue(args.max_seq_length) >= args.T
          /\ TheValue(args.max_seq_length) <= args.T + args.max_new_tokens

\* C1: when the loop exhausts its max_new_tokens steps and the sampled
\* sequence never ended with a stop pattern, the stream yielded is exactly
\* the sampled tokens in order (the buffer is flushed), for every L >= 1.
C1_BudgetYieldsAll ==
    (ValidCall /\ gpc = "budget" /\ NeverMatches(sampled)) => Stream = sampled

\* C2: at every step, also before the buffer has filled, a sampled sequence
\* that ends with a configured stop pattern stops the generation at once:
\* the loop is not left running for a further Model call.
C2_MatchDetectedAtEveryStep ==
    (ValidCall /\ EndsWithStop(sampled)) => gpc # "running"

\* C3: when generate stops by a match, the whole stream yielded is the
\* sampled sequence with the last len(P) tokens removed, P being a
\* configured pattern the sampled sequence ends with; with stop_tokens ([3])
\* the samples 1,2,3 give 1,2 and with ([2,3]) they give 1.
C3_MatchStream ==
    /\ gpc = "match" =>
         \E i \in DOMAIN stops :
            /\ EndsWith(sampled, stops[i])
            /\ Stream = DropLast(sampled, Len(stops[i]))
    /\ (stops = << <<3>> >> /\ sampled = <<1, 2, 3>>) =>
         (gpc = "match" /\ Stream = <<1, 2>>)
    /\ (stops = << <<2, 3>> >> /\ sampled = <<1, 2, 3>>) =>
         (gpc = "match" /\ Stream = <<1>>)

C3_Witness ==
    /\ gpc = "match"
    /\ L >= 3
    /\ Len(yielded) = 2
    /\ Len(yielded[2]) = 2

\* C4: in every state the tokens yielded so far are a prefix of the tokens
\* sampled so far: nothing is yielded twice or out of order, for every L.
C4_YieldedPrefixOfSampled == IsPrefix(Stream, sampled)

C4_Witness ==
    /\ gpc = "running"
    /\ L >= 2
    /\ Len(Stream) >= 2
    /\ Stream[1] # Stream[2]

\* C5: the concatenation of everything one call yields contains no
\* configured stop pattern as a contiguous subsequence.
C5_NoStopInStream ==
    ValidCall => \A i \in DOMAIN stops : ~ Contains(Stream, stops[i])

\* C6: when patterns of different lengths match the tail at the step that
\* stops the generation, the number of trailing tokens withheld is the
\* length of the first of them in configuration order, not of the longest.
SeveralLengthsMatch ==
    \E i, j \in DOMAIN stops :
        /\ Len(stops[i]) # Len(stops[j])
        /\ EndsWith(sampled, stops[i])
        /\ EndsWith(sampled, stops[j])

C6_FirstPatternWins ==
    (gpc = "match" /\ SeveralLengthsMatch) =>
        Len(sampled) - Len(Stream) = Len(stops[FirstEnding(sampled)])

C6_Witness ==
    /\ gpc = "match"
    /\ SeveralLengthsMatch
    /\ Len(stops[FirstEnding(sampled)]) = 1
    /\ Len(Stream) = Len(sampled) - 1

\* C7: the first Model call gets the whole prompt at positions 0..T-1; the
\* (k+1)-th call gets the single position T+k-1 and the one token sampled
\* at the step before; the cursor is T after the first step and grows by
\* one per sampled token, whether or not the step yielded anything.
C7_PositionCursor ==
    /\ \A m \in DOMAIN forwards :
          IF m = 1
          THEN /\ forwards[m].input_pos = [i \in 1..args.T |-> i - 1]
               /\ forwards[m].idx = Prompt(args.T)
          ELSE /\ forwards[m].input_pos = << args.T + m - 2 >>
               /\ forwards[m].idx = << sampled[m - 1] >>
    /\ sampled # << >> => input_pos = << args.T + Len(sampled) - 1 >>

C7_Witness ==
    /\ Len(forwards) >= 3
    /\ args.T >= 2
    /\ yielded = << >>
    /\ Len(sampled) >= 3

\* C8: a keyboard interrupt during a reply, after k < N items were yielded,
\* leaves exactly those k items as the output of the reply, is followed by
\* no further Model call of that generation, escapes nowhere, and the REPL
\* asks for the next prompt.
C8_InterruptAbsorbed ==
    [][ /\ (gpc # "cancelled" /\ gpc' = "cancelled") =>
              (pc' = "input" /\ yielded' = yielded /\ forwards' = forwards)
        /\ (gpc = "cancelled" /\ gpc' = "cancelled") =>
              (pc' # "crash" /\ yielded' = yielded /\ forwards' = forwards) ]_vars

C8_Witness ==
    /\ gpc = "cancelled"
    /\ pc = "input"
    /\ Len(yielded) = 2
    /\ Len(sampled) < args.max_new_tokens

\* C9: in every turn of the REPL the first Model call of the turn's
\* generation comes after that turn's model.reset_cache(), whatever the
\* earlier turns did.
C9_ResetBeforeFirstForward ==
    [][ (forwards = << >> /\ forwards' # << >>) =>
            (cacheFresh /\ resets = turns) ]_vars

C9_Witness ==
    /\ turns = 2
    /\ prev = "cancelled"
    /\ resets = 2
    /\ Len(forwards) = 1

\* C10: a call with a window smaller than the prompt, or a temperature
\* <= 0, is rejected before the loop starts: no Model call, nothing yielded.
InvalidConfiguration ==
    \/ args.max_seq_length # None /\ TheValue(args.max_seq_length) < args.T
    \/ args.temperature <= 0

C10_InvalidRejected ==
    InvalidConfiguration => (forwards = << >> /\ yielded = << >>)

\* C10 as amended: the configuration generate rejects before the loop is a
\* max_seq_length larger than T + max_new_tokens, and only that one; then
\* no Model call is made and nothing is yielded.
Oversized ==
    /\ args.max_seq_length # None
    /\ TheValue(args.max_seq_length) > args.T + args.max_new_tokens

C10_OversizedRejected ==
    /\ Oversized => (gpc \in {"created", "rejected"} /\ forwards = << >> /\ yielded = << >>)
    /\ gpc = "rejected" => Oversized

C10_Witness ==
    /\ gpc = "rejected"
    /\ Oversized
    /\ forwards = << >>

\* ---------------------------------------------------------- C11 .. C17
\* the n-th largest logit before masking, counted with repetitions
NthLargest(n) ==
    CHOOSE x \in { unmasked[v] : v \in Vocab } :
        /\ Cardinality({ v \in Vocab : unmasked[v] > x }) < n
        /\ Cardinality({ v \in Vocab : unmasked[v] >= x }) >= n

Masked == spc \in {"masked", "drawn"} /\ args.top_k # None

\* C11: for all logits and every top_k = k, after the masking the tokens
\* left with a probability above 0 are at least k, none of them has a logit
\* below the k-th largest, and all tokens tied with the k-th largest are kept.
C11_TopKKeepsK ==
    (Masked /\ args.temperature > 0) =>
        LET k == TheValue(args.top_k)
        IN /\ Cardinality(Support(logits)) >= k
           /\ k <= VocabSize =>
                /\ \A v \in Support(logits) : ~ (unmasked[v] < NthLargest(k))
                /\ \A v \in Vocab : unmasked[v] = NthLargest(k) => v \in Support(logits)

\* C11 as amended: k is clamped to the size of the vocabulary.
C11_TopKKeepsClampedK ==
    Masked =>
        LET k == Min(TheValue(args.top_k), VocabSize)
        IN /\ Cardinality(Support(logits)) >= k
           /\ \A v \in Support(logits) : ~ (unmasked[v] < NthLargest(k))
           /\ \A v \in Vocab : unmasked[v] = NthLargest(k) => v \in Support(logits)
           /\ \A v \in Support(logits) : logits[v] = unmasked[v]
           /\ drawn # 0 => drawn \in Support(logits)

C11_Witness ==
    /\ spc = "drawn"
    /\ args.top_k = Some(2)
    /\ Cardinality(Support(logits)) = 3
    /\ \E v \in Vocab : unmasked[v] > NthLargest(2)

\* C12: on any turn, after any number of replies, reading an empty prompt
\* line ends the process: no generator is created for the line, no Model
\* call is made, nothing is output, and main takes no further step.
C12_EmptyPromptExits ==
    [][ /\ (pc = "input" /\ prompt' = "" /\ pc' # "input") =>
              /\ pc' = "exit"
              /\ gpc' = gpc
              /\ turns' = turns
              /\ forwards' = forwards
              /\ yielded' = yielded
        /\ pc # "exit" ]_vars

C12_Witness ==
    /\ pc = "exit"
    /\ prompt = ""
    /\ turns = 2
    /\ gpc = "match"
    /\ yielded # << >>

\* C13: at a step t that matches no stop pattern nothing is yielded while
\* t < L-1, and from t = L-1 on exactly one token is yielded, the one
\* sampled at step t-L+1; after the step min(t+1, L-1) sampled tokens are
\* withheld (none when L = 1).
C13_OneTokenPerFullStep ==
    [][ (Len(sampled') = Len(sampled) + 1 /\ gpc' \in {"running", "budget"}) =>
            /\ t = Len(sampled)
            /\ t < L - 1 => yielded' = yielded
            /\ t >= L - 1 => yielded' = Append(yielded, << sampled'[t - L + 2] >>)
            /\ Len(sampled') - Len(Flatten(yielded')) = Min(t + 1, L - 1) ]_vars

C13_Witness ==
    /\ gpc = "running"
    /\ L = 3
    /\ Len(sampled) = 3
    /\ yielded = << << sampled[1] >> >>

Failed == {"failed", "sample_failed"}

\* C14: a failure of the Model call or of the sampling at step t leaves
\* generate at once: the failing step retracts nothing, afterwards there is
\* no further Model call and no further yield, and main does not absorb it
\* as it absorbs a keyboard interrupt: the exception ends the process.
C14_FailurePropagates ==
    [][ /\ (gpc = "running" /\ gpc' \in Failed) =>
              (yielded' = yielded /\ sampled' = sampled /\ pc' = pc)
        /\ gpc \in Failed =>
              /\ pc' = "crash"
              /\ gpc' = gpc
              /\ forwards' = forwards
              /\ yielded' = yielded
        /\ pc # "crash" ]_vars

C14_Witness ==
    /\ pc = "crash"
    /\ gpc = "failed"
    /\ Len(forwards) = 3
    /\ Len(yielded) = 2

\* C15: a call pulled to exhaustion ends, in exactly one of the states
\* stopped-by-budget and stopped-by-match unless an exception ended it, after
\* at most N = max_new_tokens Model calls, exactly N when it stopped by
\* budget; from a terminal state no further Model call or yield happens.
C15_Bookkeeping ==
    /\ Len(forwards) <= args.max_new_tokens
    /\ gpc = "running" => (Len(forwards) = t /\ t < args.max_new_tokens)
    /\ gpc = "budget" => (Len(forwards) = args.max_new_tokens /\ Len(sampled) = args.max_new_tokens)
    /\ gpc = "match" => (Len(forwards) = Len(sampled) /\ EndsWithStop(sampled))

C15_Terminates ==
    /\ [] C15_Bookkeeping
    /\ [][ gpc \notin {"budget", "match"} ]_vars
    /\ <> (gpc \in {"budget", "match", "failed", "sample_failed", "rejected"})
    /\ (args.temperature # 0 /\ ~ Oversized) =>
           <> (gpc \in {"budget", "match", "failed"})

C15_Witness ==
    /\ gpc = "budget"
    /\ Len(forwards) = MaxNew
    /\ L = 3
    /\ Len(yielded) = MaxNew - 2

\* C16: in every Model call each position passed is below the
\* max_seq_length passed with it, for every prompt and budget that pass
\* line 43, the call of main included.
C16_PositionsInsideWindow ==
    (args.temperature > 0 /\ args.max_seq_length = None) =>
        \A m \in DOMAIN forwards :
            \A i \in DOMAIN forwards[m].input_pos :
                forwards[m].input_pos[i] < forwards[m].max_seq_length

\* C17: every item yielded is non-empty and is made of the tokens sampled
\* in this call that come next after those already yielded: no filler and
\* no slot the roll left behind is ever yielded.
C17_YieldsFreshSampledTokens ==
    [][ Len(yielded') > Len(yielded) =>
            LET item == yielded'[Len(yielded')]
                done == Len(Stream)
            IN /\ yielded' = Append(yielded, item)
               /\ Len(item) >= 1
               /\ \A i \in DOMAIN item : item[i] \in Vocab
               /\ done + Len(item) <= Len(sampled')
               /\ item = SubSeq(sampled', done + 1, done + Len(item)) ]_vars

C17_Witness ==
    /\ gpc = "match"
    /\ L = 2
    /\ Len(sampled) = 3
    /\ yielded = << << sampled[1] >>, << sampled[2] >> >>
    /\ buffer[1] = sampled[2]

====
